---- MODULE Spec2Model ----
(***************************************************************************)
(* Temporal memory engine of temporal_mem: the Memory facade (memory.py),  *)
(* the TemporalEngine (temporal/engine.py) and the SqliteStore             *)
(* (storage/sqlite_store.py).                                              *)
(*                                                                         *)
(* State: the rows of the SQLite table "memories" in rowid order, the      *)
(* points of the vector index, the clock, the call in progress with its    *)
(* outcome (last), and the user whose sweep the preceding call completed   *)
(* (swept).  Every public operation of Memory is one action that runs the  *)
(* whole handler (calls are serialized); Return hands the outcome to the   *)
(* caller before the next call starts.  The external collaborators         *)
(* (extractor, embedder, vector index) are the environment: their results  *)
(* and their failures are drawn nondeterministically.                      *)
(* Calls that are not serialized are the subject of ConcSpec, whose steps   *)
(* are the single calls to the store and to the index.                     *)
(*                                                                         *)
(* Time is counted in ticks, TicksPerDay of them to a day; scores and      *)
(* confidences in hundredths.                                              *)
(***************************************************************************)
EXTENDS Integers, Sequences, FiniteSets, TLC

VARIABLES store, index, now, last, swept

vars == <<store, index, now, last, swept>>

\* ------------------------------------------------------------------ bounds
MaxTime == 1
MaxBatch == 2
MaxHits == 2
TicksPerDay == 2
MaxDuration == 4

\* ------------------------------------------------------------- value sets
Users == {"u1", "u2"}
NoSlot == "null"
Slots == {"s1"}
NoTime == -1
NoHalfLife == NoTime
NoKind == "none"
EmptySlot == ""
NoUser == "none"
NoId == "none"
Statuses == {"active", "archived", "expired", "deleted"}
NewTexts == {"t1"}
Scores == {50, 90}
NewIds == <<"n1", "n2", "n3", "n4">>
Ids == {"a", "b", "c"}
Phantom == "z"
NoFilter == "unset"
Confidences == {30, 50}

Range(s) == {s[k] : k \in 1..Len(s)}

\* --------------------------------------------------------------- models.py
\* MemoryModel as the store persists it (SqliteStore.insert writes these
\* columns; source_turn_id and extra are carried unchanged and left out).
\* decay_half_life_days has the class's default, None, unless set.
MemoryModel(id, user_id, memory, type, slot, status, created_at, valid_until, confidence, supersedes) ==
    [id |-> id, user_id |-> user_id, memory |-> memory, type |-> type,
     slot |-> slot, status |-> status, created_at |-> created_at,
     valid_until |-> valid_until, decay_half_life_days |-> NoHalfLife,
     confidence |-> confidence, supersedes |-> supersedes]

\* FactCandidate: what the extractor hands to the engine (kind is None
\* unless set).
FactCandidate(text, category, slot, confidence, duration_in_days) ==
    [text |-> text, category |-> category, kind |-> NoKind, slot |-> slot,
     confidence |-> confidence, duration_in_days |-> duration_in_days]

\* ------------------------------------------------------------ SqliteStore
\* INSERT OR REPLACE: a row with the same primary key is removed and the
\* new row is appended (it gets a new rowid).
Insert(st, mem) ==
    SelectSeq(st, LAMBDA r : r.id # mem.id) \o <<mem>>

HasRow(st, mem_id) == \E k \in 1..Len(st) : st[k].id = mem_id

\* get_by_id: the row (callers test HasRow for the None result).
GetById(st, mem_id) ==
    st[CHOOSE k \in 1..Len(st) : st[k].id = mem_id]

\* Variant that removes the row instead of changing its status.
UpdateStatusRemovesRow(st, mem_id, new_status) ==
    SelectSeq(st, LAMBDA r : r.id # mem_id)

\* UPDATE memories SET status = ? WHERE id = ?
UpdateStatus(st, mem_id, new_status) ==
    [k \in 1..Len(st) |->
        IF st[k].id = mem_id THEN [st[k] EXCEPT !.status = new_status]
        ELSE st[k]]

GetActiveBySlot(st, user_id, slot) ==
    SelectSeq(st, LAMBDA r : r.user_id = user_id /\ r.slot = slot
                             /\ r.status = "active")

\* The ids of a list of rows, in the list's order.
RowIds(st) == [k \in 1..Len(st) |-> st[k].id]

ListByIds(st, ids) ==
    IF ids = <<>> THEN <<>>
    ELSE SelectSeq(st, LAMBDA r : r.id \in Range(ids))

\* ORDER BY datetime(created_at) DESC: rows of equal created_at come in an
\* order SQLite does not fix, so every descending order is a possible result.
IsDescByCreated(s) ==
    \A k \in 1..(Len(s) - 1) : s[k].created_at >= s[k + 1].created_at

\* Variant that orders by created_at ascending.
ListByUserOldestFirst(st, user_id, status) ==
    LET rows == {st[k] : k \in {j \in 1..Len(st) :
                    st[j].user_id = user_id /\ st[j].status = status}}
        n == Cardinality(rows)
    IN {s \in [1..n -> rows] :
           /\ Range(s) = rows
           /\ \A k \in 1..(n - 1) : s[k].created_at <= s[k + 1].created_at}

ListByUser(st, user_id, status) ==
    LET rows == {st[k] : k \in {j \in 1..Len(st) :
                    st[j].user_id = user_id /\ st[j].status = status}}
        n == Cardinality(rows)
    IN {s \in [1..n -> rows] : Range(s) = rows /\ IsDescByCreated(s)}

\* expire_user_memories(user_id): active rows of the user whose valid_until
\* is set and has passed become expired; returns how many.
ExpireUserMemories(st, user_id, t) ==
    LET due(r) == r.user_id = user_id /\ r.status = "active"
                  /\ r.valid_until # NoTime /\ r.valid_until < t
    IN [store |-> [k \in 1..Len(st) |->
                      IF due(st[k]) THEN [st[k] EXCEPT !.status = "expired"]
                      ELSE st[k]],
        count |-> Cardinality({k \in 1..Len(st) : due(st[k])})]

\* --------------------------------------------------------- TemporalEngine
ConfidenceFloor == 50
TempStateValidDays == 3

MapCategoryToType(category) ==
    CASE category = "profile" -> "profile_fact"
      [] category = "preference" -> "preference"
      [] category = "event" -> "episodic_event"
      [] category = "temp_state" -> "temp_state"
      [] OTHER -> "other"

MinHalfLife == 1
TempStateHalfLife == 1
PreferenceHalfLife == 60
EventHalfLife == 7
OtherHalfLife == 30

Max(a, b) == IF a >= b THEN a ELSE b

\* _apply_policies, tier 2: the half-life a type gets by default.
TypeHalfLife(type) ==
    CASE type = "temp_state" -> TempStateHalfLife
      [] type = "preference" -> PreferenceHalfLife
      [] type = "profile_fact" -> NoHalfLife
      [] type = "episodic_event" -> EventHalfLife
      [] OTHER -> OtherHalfLife

\* _apply_policies(mem, fact): valid_until and decay_half_life_days of the
\* record.  An explicit positive duration wins, otherwise the type default
\* applies.
ApplyPolicies(mem, fact, t) ==
    IF fact.duration_in_days # NoTime /\ fact.duration_in_days > 0
    THEN [mem EXCEPT !.valid_until = t + fact.duration_in_days * TicksPerDay,
                     !.decay_half_life_days
                        = Max(MinHalfLife, fact.duration_in_days \div 2)]
    ELSE IF mem.type = "temp_state"
         THEN [mem EXCEPT !.valid_until = t + TempStateValidDays * TicksPerDay,
                          !.decay_half_life_days = TypeHalfLife(mem.type)]
         ELSE [mem EXCEPT !.valid_until = NoTime,
                          !.decay_half_life_days = TypeHalfLife(mem.type)]

\* A call self._apply_policies(*args): the method takes exactly (mem, fact);
\* any other number of positional arguments raises TypeError before the
\* body runs.
CallApplyPolicies(args, t) ==
    IF Len(args) # 2 THEN [raised |-> TRUE, mem |-> args[1]]
    ELSE [raised |-> FALSE, mem |-> ApplyPolicies(args[1], args[2], t)]

\* _type_and_slot_from_fact(fact): <<type, slot>>, by kind for the three
\* routed kinds, else by category with the candidate's slot (fact.slot or
\* None: an empty slot becomes None).
TypeAndSlotFromFact(fact) ==
    CASE fact.kind = "home_location" -> <<"profile_fact", "home_location">>
      [] fact.kind = "current_location" -> <<"temp_state", "current_location">>
      [] fact.kind = "trip" -> <<"episodic_event", "trip">>
      [] OTHER -> <<MapCategoryToType(fact.category),
                    IF fact.slot = EmptySlot THEN NoSlot ELSE fact.slot>>

\* _resolve_conflicts(mem): archive every active row of (user, slot) and
\* record their ids, in the order the store returned them.
ResolveConflicts(st, mem) ==
    IF mem.slot = NoSlot THEN [store |-> st, mem |-> mem]
    ELSE LET existing == GetActiveBySlot(st, mem.user_id, mem.slot)
             supersedes_ids == [k \in 1..Len(existing) |-> existing[k].id]
             archived == [k \in 1..Len(st) |->
                            IF st[k].id \in Range(supersedes_ids)
                            THEN [st[k] EXCEPT !.status = "archived"]
                            ELSE st[k]]
         IN [store |-> archived,
             mem |-> IF supersedes_ids # <<>>
                     THEN [mem EXCEPT !.supersedes = supersedes_ids]
                     ELSE mem]

\* from_fact_candidate: builds the record, then calls
\* self._apply_policies(mem) with the record alone (engine.py line 125).
FromFactCandidate(st, fact, user_id, new_id, t) ==
    LET mem == MemoryModel(new_id, user_id, fact.text,
                           MapCategoryToType(fact.category), fact.slot,
                           "active", t, NoTime, fact.confidence, <<>>)
        ap == CallApplyPolicies(<<mem>>, t)
    IN IF ap.raised THEN [raised |-> TRUE, store |-> st, mem |-> mem]
       ELSE LET rc == ResolveConflicts(st, ap.mem)
            IN [raised |-> FALSE, store |-> rc.store, mem |-> rc.mem]

\* Variant whose floor is exclusive: a candidate exactly at the floor is dropped.
BelowOrAtFloor(fact) == fact.confidence <= ConfidenceFloor

\* The confidence test of process_write_batch's loop.
BelowFloor(fact) == fact.confidence < ConfidenceFloor

\* process_write_batch from position k on.  handed: the positions of the
\* candidates passed to from_fact_candidate; an exception ends the loop.
RECURSIVE ProcessFrom(_, _, _, _, _, _, _)
ProcessFrom(st, facts, k, user_id, t, memories, handed) ==
    IF k > Len(facts)
    THEN [raised |-> FALSE, store |-> st, memories |-> memories, handed |-> handed]
    ELSE IF BelowFloor(facts[k])
    THEN ProcessFrom(st, facts, k + 1, user_id, t, memories, handed)
    ELSE LET r == FromFactCandidate(st, facts[k], user_id,
                                    NewIds[Len(memories) + 1], t)
         IN IF r.raised
            THEN [raised |-> TRUE, store |-> r.store, memories |-> memories,
                  handed |-> Append(handed, k)]
            ELSE ProcessFrom(r.store, facts, k + 1, user_id, t,
                             Append(memories, r.mem), Append(handed, k))

ProcessWriteBatch(st, facts, user_id, t) ==
    ProcessFrom(st, facts, 1, user_id, t, <<>>, <<>>)

\* ------------------------------------------------------------ vector index
\* A point's payload: the fields the index filters on (the vector and the
\* payload's other fields do not enter any decision of the engine).
Payload(mem) ==
    [user_id |-> mem.user_id, status |-> mem.status]

UpsertPoint(ix, memory_id, point) ==
    [j \in DOMAIN ix \cup {memory_id} |-> IF j = memory_id THEN point ELSE ix[j]]

VectorDelete(ix, memory_id) ==
    [j \in DOMAIN ix \ {memory_id} |-> ix[j]]

\* search(query_vector, user_id, limit, filters): an ordered list of
\* {id, score} over points of the user that match the status filter; which
\* points, in which order and with which similarity is the index's choice.
VectorSearch(ix, user_id, status) ==
    LET match == {j \in DOMAIN ix : ix[j].user_id = user_id /\ ix[j].status = status}
        hit == [id : match, score : Scores]
    IN UNION {{h \in [1..n -> hit] :
                  \A a, b \in 1..n : a # b => h[a].id # h[b].id} : n \in 0..MaxHits}

\* ------------------------------------------------------------------ Memory
\* _parse_iso_maybe: None for a missing timestamp, else the instant.
ParseIsoMaybe(dt) == IF dt = NoTime THEN NoTime ELSE dt

ExpiredPenalty == 50
ProfileBonus == 10
PreferenceBonus == 5
TempStalePenalty == 10
TempStaleDays == 7
EventStalePenalty == 5
EventStaleDays == 30
LowConfidence == 50
LowConfidencePenalty == 20
HighConfidence == 90
HighConfidenceBonus == 5

\* timedelta.days: the whole days of a time difference.
Days(delta) == delta \div TicksPerDay

\* _compute_rank_score
ComputeRankScore(base_score, mem, t) ==
    LET valid_until_dt == ParseIsoMaybe(mem.valid_until)
        created_at_dt == ParseIsoMaybe(mem.created_at)
        expiry == IF valid_until_dt # NoTime /\ t > valid_until_dt
                  THEN 0 - ExpiredPenalty ELSE 0
        type_adj ==
            IF mem.type = "profile_fact" THEN ProfileBonus
            ELSE IF mem.type = "preference" THEN PreferenceBonus
            ELSE IF mem.type = "temp_state" /\ created_at_dt # NoTime
                    /\ Days(t - created_at_dt) > TempStaleDays
                 THEN 0 - TempStalePenalty
            ELSE IF mem.type = "episodic_event" /\ created_at_dt # NoTime
                    /\ Days(t - created_at_dt) > EventStaleDays
                 THEN 0 - EventStalePenalty
            ELSE 0
        conf_adj == IF mem.confidence < LowConfidence THEN 0 - LowConfidencePenalty
                    ELSE IF mem.confidence > HighConfidence THEN HighConfidenceBonus
                    ELSE 0
    IN base_score + expiry + type_adj + conf_adj

\* Variant that never calls the store's sweep.
LazyExpireUserSkipped(st, user_id, t, ok) ==
    [store |-> st, expired |-> 0, raised |-> FALSE]

\* Variant whose sweep reports its count but whose updates are not committed.
LazyExpireUserUncommitted(st, user_id, t, ok) ==
    IF ok
    THEN [store |-> st, expired |-> ExpireUserMemories(st, user_id, t).count,
          raised |-> FALSE]
    ELSE [store |-> st, expired |-> 0, raised |-> FALSE]

\* Variant without the try/except: a failure of the sweep reaches the caller.
LazyExpireUserUnguarded(st, user_id, t, ok) ==
    IF ok
    THEN [store |-> ExpireUserMemories(st, user_id, t).store,
          expired |-> ExpireUserMemories(st, user_id, t).count, raised |-> FALSE]
    ELSE [store |-> st, expired |-> 0, raised |-> TRUE]

\* Variant whose sweep is not confined to the user of the call: it expires
\* the lapsed rows of every user.
LazyExpireUserEveryone(st, user_id, t, ok) ==
    IF ok
    THEN [store |-> ExpireUserMemories(ExpireUserMemories(st, "u1", t).store, "u2", t).store,
          expired |-> ExpireUserMemories(st, "u1", t).count
                      + ExpireUserMemories(st, "u2", t).count,
          raised |-> FALSE]
    ELSE [store |-> st, expired |-> 0, raised |-> FALSE]

\* _lazy_expire_user: the sweep, with any failure of it caught and logged.
\* ok: whether the store's expire_user_memories call succeeds.
LazyExpireUser(st, user_id, t, ok) ==
    IF ok
    THEN LET r == ExpireUserMemories(st, user_id, t)
         IN [store |-> r.store, expired |-> r.count, raised |-> FALSE]
    ELSE [store |-> st, expired |-> 0, raised |-> FALSE]

\* Variant without the defensive test: every fetched record is let through.
SurfacedWhateverStatus(mem) == mem.status \in Statuses

\* The test of search's loop that lets a fetched record into the results.
Surfaced(mem) == mem.status = "active"

\* search, lines 276-306: fetch the hits' rows, drop ids without a row and
\* rows that are not active, score the rest.
RECURSIVE Combine(_, _, _, _)
Combine(st, vec_results, k, t) ==
    IF k > Len(vec_results) THEN <<>>
    ELSE LET r == vec_results[k]
             mems == ListByIds(st, [j \in 1..Len(vec_results) |-> vec_results[j].id])
             found == {m \in Range(mems) : m.id = r.id}
             rest == Combine(st, vec_results, k + 1, t)
         IN IF found = {} THEN rest
            ELSE LET mem == CHOOSE m \in found : TRUE
                 IN IF ~Surfaced(mem) THEN rest
                    ELSE <<[memory |-> mem, similarity |-> r.score,
                            score |-> ComputeRankScore(r.score, mem, t)]>> \o rest

\* Variant of the sort that is not stable: an element moves ahead of the
\* earlier elements of equal score.
RECURSIVE SortDescTiesReversed(_)
SortDescTiesReversed(s) ==
    IF s = <<>> THEN <<>>
    ELSE LET x == s[Len(s)]
             front == SortDescTiesReversed(SubSeq(s, 1, Len(s) - 1))
             ahead == SelectSeq(front, LAMBDA y : y.score > x.score)
             behind == SelectSeq(front, LAMBDA y : y.score <= x.score)
         IN ahead \o <<x>> \o behind

\* combined.sort(key=score, reverse=True): stable, equal scores keep their order.
RECURSIVE SortDesc(_)
SortDesc(s) ==
    IF s = <<>> THEN <<>>
    ELSE LET x == s[Len(s)]
             front == SortDesc(SubSeq(s, 1, Len(s) - 1))
             ahead == SelectSeq(front, LAMBDA y : y.score >= x.score)
             behind == SelectSeq(front, LAMBDA y : y.score < x.score)
         IN ahead \o <<x>> \o behind

\* add, lines 158-162: insert every record of the batch.
RECURSIVE InsertAll(_, _)
InsertAll(st, mems) ==
    IF mems = <<>> THEN st
    ELSE InsertAll(Insert(st, Head(mems)), Tail(mems))

\* add, lines 164-195: embed and upsert every active record of the batch;
\* a failure skips that record only.  embedOk, upsertOk: the positions whose
\* embedding / upsert succeeds.
RECURSIVE IndexActive(_, _, _, _, _)
IndexActive(ix, mems, k, embedOk, upsertOk) ==
    IF k > Len(mems) THEN ix
    ELSE IF mems[k].status # "active" \/ k \notin embedOk \/ k \notin upsertOk
    THEN IndexActive(ix, mems, k + 1, embedOk, upsertOk)
    ELSE IndexActive(UpsertPoint(ix, mems[k].id, Payload(mems[k])), mems,
                     k + 1, embedOk, upsertOk)

\* The outcome of a call, as the caller sees it.
Outcome(st, ix, raised, found, expired, handed, results) ==
    [store |-> st, index |-> ix, raised |-> raised, found |-> found,
     expired |-> expired, handed |-> handed, results |-> results]

\* Variant without the return on an empty extraction: the empty batch goes
\* downstream, where indexing it fails the call.
MemoryAddEmptyGoesOn(st, ix, facts, user_id, t, sweepOk, embedOk, upsertOk) ==
    IF facts = <<>>
    THEN Outcome(LazyExpireUser(st, user_id, t, sweepOk).store, ix, TRUE, FALSE,
                 LazyExpireUser(st, user_id, t, sweepOk).expired, <<>>, <<>>)
    ELSE IF ProcessWriteBatch(LazyExpireUser(st, user_id, t, sweepOk).store,
                              facts, user_id, t).raised
    THEN Outcome(LazyExpireUser(st, user_id, t, sweepOk).store, ix, TRUE, FALSE,
                 LazyExpireUser(st, user_id, t, sweepOk).expired,
                 ProcessWriteBatch(LazyExpireUser(st, user_id, t, sweepOk).store,
                                   facts, user_id, t).handed, <<>>)
    ELSE Outcome(LazyExpireUser(st, user_id, t, sweepOk).store, ix, FALSE, FALSE,
                 LazyExpireUser(st, user_id, t, sweepOk).expired, <<>>, <<>>)

\* add(messages, user_id): facts is what the extractor returns.
MemoryAdd(st, ix, facts, user_id, t, sweepOk, embedOk, upsertOk) ==
    LET le == LazyExpireUser(st, user_id, t, sweepOk)
    IN IF le.raised THEN Outcome(le.store, ix, TRUE, FALSE, le.expired, <<>>, <<>>)
       ELSE IF facts = <<>>
       THEN Outcome(le.store, ix, FALSE, FALSE, le.expired, <<>>, <<>>)
       ELSE LET pw == ProcessWriteBatch(le.store, facts, user_id, t)
            IN IF pw.raised
               THEN Outcome(pw.store, ix, TRUE, FALSE, le.expired, pw.handed, <<>>)
               ELSE Outcome(InsertAll(pw.store, pw.memories),
                            IndexActive(ix, pw.memories, 1, embedOk, upsertOk),
                            FALSE, FALSE, le.expired, pw.handed, pw.memories)

\* list's parameter status: str = "active".
ListStatus(given) == IF given = NoFilter THEN "active" ELSE given

\* Variant that takes out of the index the points of the records that are
\* expired once the sweep has run.
MemoryListDropsExpired(st, ix, user_id, status, t, sweepOk, rows) ==
    Outcome(LazyExpireUser(st, user_id, t, sweepOk).store,
            [j \in {i \in DOMAIN ix :
                       \A r \in Range(LazyExpireUser(st, user_id, t, sweepOk).store) :
                          r.id = i => r.status # "expired"} |-> ix[j]],
            FALSE, FALSE, LazyExpireUser(st, user_id, t, sweepOk).expired, <<>>, rows)

\* list(user_id, status), for one order the store may return.
MemoryList(st, ix, user_id, status, t, sweepOk, rows) ==
    LET le == LazyExpireUser(st, user_id, t, sweepOk)
    IN IF le.raised THEN Outcome(le.store, ix, TRUE, FALSE, le.expired, <<>>, <<>>)
       ELSE Outcome(le.store, ix, FALSE, FALSE, le.expired, <<>>, rows)

\* search(query, user_id, filters): the status the vector search filters on.
SearchStatus(filter) == IF filter = NoFilter THEN "active" ELSE filter

\* Variant without the try/except around the query embedding and the vector
\* search: a failure of either ends the call.
MemorySearchUnprotected(st, ix, user_id, t, sweepOk, embedOk, searchOk, vec_results) ==
    IF ~embedOk \/ ~searchOk
    THEN Outcome(LazyExpireUser(st, user_id, t, sweepOk).store, ix, TRUE, FALSE,
                 LazyExpireUser(st, user_id, t, sweepOk).expired, <<>>, <<>>)
    ELSE Outcome(LazyExpireUser(st, user_id, t, sweepOk).store, ix, FALSE, FALSE,
                 LazyExpireUser(st, user_id, t, sweepOk).expired, <<>>,
                 SortDesc(Combine(LazyExpireUser(st, user_id, t, sweepOk).store,
                                  vec_results, 1, t)))

\* search, after the sweep.  embedOk / searchOk: whether embedding the query
\* and the vector search succeed; vec_results: what the vector search returns.
MemorySearch(st, ix, user_id, t, sweepOk, embedOk, searchOk, vec_results) ==
    LET le == LazyExpireUser(st, user_id, t, sweepOk)
    IN IF le.raised THEN Outcome(le.store, ix, TRUE, FALSE, le.expired, <<>>, <<>>)
       ELSE IF ~embedOk \/ ~searchOk \/ vec_results = <<>>
       THEN Outcome(le.store, ix, FALSE, FALSE, le.expired, <<>>, <<>>)
       ELSE Outcome(le.store, ix, FALSE, FALSE, le.expired, <<>>,
                    SortDesc(Combine(le.store, vec_results, 1, t)))

\* update(memory_id, new_content)
MemoryUpdate(st, ix, memory_id, new_content, t, embedOk, upsertOk) ==
    IF ~HasRow(st, memory_id) THEN Outcome(st, ix, FALSE, FALSE, 0, <<>>, <<>>)
    ELSE LET old == GetById(st, memory_id)
             archived == UpdateStatus(st, memory_id, "archived")
             new_mem == [MemoryModel(memory_id, old.user_id, new_content, old.type,
                                     old.slot, "active", t, old.valid_until,
                                     old.confidence, <<memory_id>>)
                         EXCEPT !.decay_half_life_days = old.decay_half_life_days]
         IN Outcome(Insert(archived, new_mem),
                    IF embedOk /\ upsertOk
                    THEN UpsertPoint(ix, new_mem.id, Payload(new_mem)) ELSE ix,
                    FALSE, TRUE, 0, <<>>, <<new_mem>>)

\* Variant without the not-found return: the status update and the vector
\* delete are issued whether or not the id has a row.
MemoryDeleteUnguarded(st, ix, memory_id, deleteOk) ==
    Outcome(UpdateStatus(st, memory_id, "deleted"),
            IF deleteOk THEN VectorDelete(ix, memory_id) ELSE ix,
            FALSE, HasRow(st, memory_id), 0, <<>>, <<>>)

\* Variant without the try/except around the vector delete, issued before
\* the status update: a failing vector delete ends the call.
MemoryDeleteUnprotected(st, ix, memory_id, deleteOk) ==
    IF ~HasRow(st, memory_id) THEN Outcome(st, ix, FALSE, FALSE, 0, <<>>, <<>>)
    ELSE IF ~deleteOk THEN Outcome(st, ix, TRUE, TRUE, 0, <<>>, <<>>)
    ELSE Outcome(UpdateStatus(st, memory_id, "deleted"),
                 VectorDelete(ix, memory_id), FALSE, TRUE, 0, <<>>, <<>>)

\* delete(memory_id)
MemoryDelete(st, ix, memory_id, deleteOk) ==
    IF ~HasRow(st, memory_id) THEN Outcome(st, ix, FALSE, FALSE, 0, <<>>, <<>>)
    ELSE Outcome(UpdateStatus(st, memory_id, "deleted"),
                 IF deleteOk THEN VectorDelete(ix, memory_id) ELSE ix,
                 FALSE, TRUE, 0, <<>>, <<>>)

\* Variant whose loop ends at the first record that fails.
RECURSIVE ReindexAllStopsAtFailure(_, _, _, _, _)
ReindexAllStopsAtFailure(ix, mems, k, embedOk, upsertOk) ==
    IF k > Len(mems) THEN ix
    ELSE IF k \notin embedOk \/ k \notin upsertOk THEN ix
    ELSE ReindexAllStopsAtFailure(UpsertPoint(ix, mems[k].id, Payload(mems[k])),
                                  mems, k + 1, embedOk, upsertOk)

\* reindex_user, lines 471-498: embed and upsert every record of the list,
\* whatever its status; a failure is counted and the loop goes on.
RECURSIVE ReindexAll(_, _, _, _, _)
ReindexAll(ix, mems, k, embedOk, upsertOk) ==
    IF k > Len(mems) THEN ix
    ELSE IF k \notin embedOk \/ k \notin upsertOk
    THEN ReindexAll(ix, mems, k + 1, embedOk, upsertOk)
    ELSE ReindexAll(UpsertPoint(ix, mems[k].id, Payload(mems[k])), mems,
                    k + 1, embedOk, upsertOk)

\* reindex_user's parameter status: str = "active".
ReindexStatus(given) == IF given = NoFilter THEN "active" ELSE given

\* reindex_user(user_id, status), for one order the store may return; the
\* result is the counts it reports.
MemoryReindexUser(st, ix, mems, embedOk, upsertOk) ==
    LET done == {k \in 1..Len(mems) : k \in embedOk /\ k \in upsertOk}
    IN Outcome(st, ReindexAll(ix, mems, 1, embedOk, upsertOk), FALSE, FALSE, 0, <<>>,
               [total |-> Len(mems), indexed |-> Cardinality(done),
                failed |-> Len(mems) - Cardinality(done)])

\* ------------------------------------------------------------------- Init
\* The table is a file that outlives the process (CREATE TABLE IF NOT
\* EXISTS), and so does the index: a session starts on what earlier sessions
\* left.  Each starting table holds at most one active row per (user, slot),
\* and a row that supersedes another names an archived one; every row was
\* indexed as an active record when it was inserted, or re-indexed since.
RowA(type, status, valid_until, confidence) ==
    [MemoryModel("a", "u1", "t0", type, "s1", status, 0, valid_until, confidence, <<>>)
        EXCEPT !.decay_half_life_days = TypeHalfLife(type)]

RowB(type, slot, valid_until, confidence, supersedes) ==
    [MemoryModel("b", "u1", "t0", type, slot, "active", 0, valid_until, confidence, supersedes)
        EXCEPT !.decay_half_life_days = TypeHalfLife(type)]

RowC ==
    [MemoryModel("c", "u2", "t0", "temp_state", "s1", "active", 0, 0, 60, <<>>)
        EXCEPT !.decay_half_life_days = TypeHalfLife("temp_state")]

Point(user_id, status) == [user_id |-> user_id, status |-> status]

\* An empty table, with a point in the index whose row the table never had.
SeedEmpty ==
    [store |-> <<>>, index |-> (Phantom :> Point("u1", "active"))]

\* b superseded a in slot s1; a's point is still in the index, re-indexed
\* as an archived record (reindex_user(u1, "archived")).
SeedSuperseded ==
    [store |-> <<RowA("profile_fact", "archived", NoTime, 95),
                 RowB("profile_fact", "s1", NoTime, 95, <<"a">>)>>,
     index |-> ("a" :> Point("u1", "archived") @@ "b" :> Point("u1", "active")
                @@ Phantom :> Point("u1", "active"))]

\* Two users, each with a temporary state that lapses after time 0.
SeedTwoUsers ==
    [store |-> <<RowA("temp_state", "active", 0, 60), RowC>>,
     index |-> ("a" :> Point("u1", "active") @@ "c" :> Point("u2", "active"))]

\* One user: a temporary state that lapses after time 0, and a slot-less
\* record valid through time 1.
SeedSlotless ==
    [store |-> <<RowA("temp_state", "active", 0, 60),
                 RowB("other", NoSlot, 1, 60, <<>>)>>,
     index |-> ("a" :> Point("u1", "active") @@ "b" :> Point("u1", "active"))]

Seeds == {SeedEmpty, SeedSuperseded, SeedTwoUsers, SeedSlotless}

\* A call and what it returned.  was: the status the target row had when
\* the call started; again: the preceding call completed the sweep of the
\* same user, at the same time and with no write since.
Call(op, user_id, memory_id, status, sweepOk, indexOk, facts, hits, out) ==
    [op |-> op, user_id |-> user_id, memory_id |-> memory_id, status |-> status,
     sweepOk |-> sweepOk, indexOk |-> indexOk, facts |-> facts, hits |-> hits,
     was |-> IF HasRow(store, memory_id) THEN GetById(store, memory_id).status
             ELSE "none",
     raised |-> out.raised, found |-> out.found, expired |-> out.expired,
     handed |-> out.handed, results |-> out.results,
     again |-> (user_id # NoUser /\ swept = user_id)]

Idle == [op |-> "idle"]

Init ==
    /\ \E seed \in Seeds : store = seed.store /\ index = seed.index
    /\ now = 0
    /\ last = Idle
    /\ swept = NoUser

\* ---------------------------------------------------------------- actions
Candidates ==
    {FactCandidate("t1", "profile", slot, c, NoTime) :
        slot \in Slots \cup {NoSlot}, c \in Confidences}

\* The sets of positions 1..n at which an external call can succeed.
Positions(n) == IF n = 0 THEN {{}} ELSE SUBSET (1..n)

Batches == UNION {[1..n -> Candidates] : n \in 0..MaxBatch}

Add ==
    /\ last = Idle
    /\ \E user_id \in Users, facts \in Batches, sweepOk \in BOOLEAN :
         \E embedOk, upsertOk \in Positions(Len(ProcessWriteBatch(store, facts, user_id, now).memories)) :
           \E out \in {MemoryAdd(store, index, facts, user_id, now, sweepOk, embedOk, upsertOk)} :
              /\ store' = out.store
              /\ index' = out.index
              /\ last' = Call("add", user_id, NoId, NoFilter, sweepOk,
                              embedOk \cap upsertOk # {}, facts, <<>>, out)
              /\ swept' = IF sweepOk /\ out.results = <<>> THEN user_id ELSE NoUser
              /\ now' = now

\* given: the status argument of the call, NoFilter when the caller leaves it
\* out; status: the one list_by_user is called with.
List ==
    /\ last = Idle
    /\ \E user_id \in Users, given \in Statuses \cup {NoFilter}, sweepOk \in BOOLEAN :
        \E status \in {ListStatus(given)} :
         \E rows \in ListByUser(LazyExpireUser(store, user_id, now, sweepOk).store, user_id, status) :
           \E out \in {MemoryList(store, index, user_id, status, now, sweepOk, rows)} :
              /\ store' = out.store
              /\ index' = out.index
              /\ last' = Call("list", user_id, NoId, status, sweepOk, FALSE, <<>>, <<>>, out)
                          @@ [given |-> given]
              /\ swept' = IF sweepOk THEN user_id ELSE NoUser
              /\ now' = now

Search ==
    /\ last = Idle
    /\ \E user_id \in Users, filter \in {NoFilter, "archived"}, sweepOk \in BOOLEAN :
         \E fail \in {"none", "embed", "search"} :
           \E vec_results \in IF fail = "none"
                              THEN VectorSearch(index, user_id, SearchStatus(filter))
                              ELSE {<<>>} :
             \E out \in {MemorySearch(store, index, user_id, now, sweepOk,
                                      fail # "embed", fail # "search", vec_results)} :
                /\ store' = out.store
                /\ index' = out.index
                /\ last' = Call("search", user_id, NoId, filter, sweepOk, fail = "none",
                                <<>>, vec_results, out)
                /\ swept' = IF sweepOk THEN user_id ELSE NoUser
                /\ now' = now

Update ==
    /\ last = Idle
    /\ \E memory_id \in Ids \cup {Phantom}, new_content \in NewTexts :
         \E fail \in {"none", "embed", "upsert"} :
           \E out \in {MemoryUpdate(store, index, memory_id, new_content, now,
                                    fail # "embed", fail # "upsert")} :
              /\ store' = out.store
              /\ index' = out.index
              /\ last' = Call("update", NoUser, memory_id, NoFilter, FALSE, fail = "none",
                              <<>>, <<>>, out)
              /\ swept' = NoUser
              /\ now' = now

Delete ==
    /\ last = Idle
    /\ \E memory_id \in Ids \cup {Phantom}, deleteOk \in BOOLEAN :
         \E out \in {MemoryDelete(store, index, memory_id, deleteOk)} :
            /\ store' = out.store
            /\ index' = out.index
            /\ last' = Call("delete", NoUser, memory_id, NoFilter, FALSE, deleteOk,
                             <<>>, <<>>, out)
            /\ swept' = NoUser
            /\ now' = now

\* given: the status argument, NoFilter when the caller leaves it out;
\* hits holds the ids of the records the store listed, in its order.
Reindex ==
    /\ last = Idle
    /\ \E user_id \in Users, given \in {NoFilter, "archived"} :
         \E mems \in ListByUser(store, user_id, ReindexStatus(given)) :
           \E embedOk, upsertOk \in Positions(Len(mems)) :
             \E out \in {MemoryReindexUser(store, index, mems, embedOk, upsertOk)} :
                /\ store' = out.store
                /\ index' = out.index
                /\ last' = Call("reindex_user", user_id, NoId, ReindexStatus(given),
                                FALSE, embedOk \cap upsertOk # {}, <<>>,
                                RowIds(mems), out)
                            @@ [given |-> given, embedOk |-> embedOk,
                                upsertOk |-> upsertOk]
                /\ swept' = NoUser
                /\ now' = now

\* The caller takes the outcome; the next call can start.
Return ==
    /\ last # Idle
    /\ last' = Idle
    /\ UNCHANGED <<store, index, now, swept>>

\* The clock advances between calls.
Tick ==
    /\ last = Idle
    /\ now < MaxTime
    /\ now' = now + 1
    /\ swept' = NoUser
    /\ UNCHANGED <<store, index, last>>

Next == Add \/ List \/ Search \/ Update \/ Delete \/ Reindex \/ Return \/ Tick

Spec == Init /\ [][Next]_vars

\* ------------------------------------------------- ranking, on its own
\* _compute_rank_score as a function of its arguments: one record, whose
\* type, age, valid_until and confidence are drawn around every threshold
\* of the function, is scored for every base score.
RankTypes == {"profile_fact", "preference", "episodic_event", "temp_state", "other"}

RankNow == (EventStaleDays + 1) * TicksPerDay

RankAges ==
    {0, TempStaleDays * TicksPerDay, TempStaleDays * TicksPerDay + 1,
     (TempStaleDays + 1) * TicksPerDay, EventStaleDays * TicksPerDay,
     EventStaleDays * TicksPerDay + 1, (EventStaleDays + 1) * TicksPerDay}

RankValidUntil == {NoTime, RankNow - 1, RankNow, RankNow + 1}

RankConfidences ==
    {LowConfidence - 1, LowConfidence, HighConfidence, HighConfidence + 1}

RankBases == Scores \cup {0}

RankInit ==
    /\ now = RankNow
    /\ \E type \in RankTypes, age \in RankAges, valid_until \in RankValidUntil :
         \E confidence \in RankConfidences :
            store = <<MemoryModel("a", "u1", "t0", type, NoSlot, "active",
                                  RankNow - age, valid_until, confidence, <<>>)>>
    /\ index = <<>>
    /\ last = Idle
    /\ swept = NoUser

\* One call of _compute_rank_score on the record.
Rank ==
    /\ last = Idle
    /\ \E base_score \in RankBases :
          last' = [op |-> "rank", base_score |-> base_score,
                   score |-> ComputeRankScore(base_score, store[1], now)]
    /\ UNCHANGED <<store, index, now, swept>>

\* The score is taken; the function can be called again.
RankReturn ==
    /\ last # Idle
    /\ last' = Idle
    /\ UNCHANGED <<store, index, now, swept>>

RankNext == Rank \/ RankReturn

RankSpec == RankInit /\ [][RankNext]_vars

\* ------------------------------------- the engine's write path, on its own
\* One candidate at a time, drawn over every category (one of them unknown),
\* every routed kind (and one that is not routed), with and without a slot
\* and a duration, goes through from_fact_candidate; _apply_policies and
\* _type_and_slot_from_fact are also called directly, as a unit test would.
WriteCategories == {"profile", "preference", "event", "temp_state", "other", "misc"}

WriteKinds == {NoKind, "home_location", "current_location", "trip", "hobby"}

WriteDurations == {NoTime} \cup 0..MaxDuration

WriteSlots == Slots \cup {NoSlot, EmptySlot}

WriteCandidates ==
    {[FactCandidate("t1", category, slot, ConfidenceFloor, duration_in_days)
         EXCEPT !.kind = kind] :
        category \in WriteCategories, kind \in WriteKinds,
        slot \in WriteSlots, duration_in_days \in WriteDurations}

WriteInit ==
    /\ store = <<>>
    /\ index = <<>>
    /\ now = 0
    /\ last = Idle
    /\ swept = NoUser

\* from_fact_candidate(fact, user_id)
FromFact ==
    /\ last = Idle
    /\ \E fact \in WriteCandidates :
         \E out \in {FromFactCandidate(store, fact, "u1", NewIds[1], now)} :
            /\ store' = out.store
            /\ last' = [op |-> "from_fact_candidate", fact |-> fact,
                        raised |-> out.raised, mem |-> out.mem]
    /\ UNCHANGED <<index, now, swept>>

\* _apply_policies(mem, fact) on a freshly classified record of each type.
Policies ==
    /\ last = Idle
    /\ \E fact \in WriteCandidates, type \in RankTypes :
          last' = [op |-> "apply_policies", fact |-> fact, raised |-> FALSE,
                   mem |-> ApplyPolicies(
                              MemoryModel(NewIds[1], "u1", fact.text, type,
                                          fact.slot, "active", now, NoTime,
                                          fact.confidence, <<>>),
                              fact, now)]
    /\ UNCHANGED <<store, index, now, swept>>

\* _type_and_slot_from_fact(fact)
Classify ==
    /\ last = Idle
    /\ \E fact \in WriteCandidates :
          last' = [op |-> "type_and_slot", fact |-> fact, raised |-> FALSE,
                   mem |-> [type |-> TypeAndSlotFromFact(fact)[1],
                            slot |-> TypeAndSlotFromFact(fact)[2]]]
    /\ UNCHANGED <<store, index, now, swept>>

\* The result is taken; the next call can start.
WriteReturn ==
    /\ last # Idle
    /\ last' = Idle
    /\ UNCHANGED <<store, index, now, swept>>

WriteNext == FromFact \/ Policies \/ Classify \/ WriteReturn

WriteSpec == WriteInit /\ [][WriteNext]_vars

\* ----------------------------------------- calls that are not serialized
\* Two callers run add, update, list and search at the same time.  A call is
\* a sequence of steps, one per call it makes to the store or to the index
\* (every statement of SqliteStore commits on its own, sqlite_store.py lines
\* 106 and 122), and the steps of the two calls interleave freely.  last
\* holds both calls in progress and the host's discipline: with exclusive,
\* a caller starts an add or an update for a user only while no other add or
\* update for that user is in progress.
Procs == {"p", "q"}

\* A call in progress: the step it is at and what it holds in its locals.
Thread(op, pc, user_id, memory_id, held, raised, results) ==
    [op |-> op, pc |-> pc, user_id |-> user_id, memory_id |-> memory_id,
     held |-> held, raised |-> raised, results |-> results]

Writes == {"add", "update"}

\* process_write_batch makes its first store call in _resolve_conflicts, which
\* no call reaches (from_fact_candidate raises before it), so the whole of
\* it is one step; batches of one candidate cover every way it can end.
ConcBatches == {facts \in Batches : Len(facts) <= 1}

MayWrite(p, user_id) ==
    \/ ~last.exclusive
    \/ \A q \in Procs \ {p} :
          ~(last.calls[q].op \in Writes /\ last.calls[q].user_id = user_id)

At(p, op, pc) == last.calls[p].op = op /\ last.calls[p].pc = pc

Step(p, call) == last' = [last EXCEPT !.calls[p] = call]

\* The tables the calls start on: one slot with a superseded and an active
\* record of one user, and one record for each of two users.
ConcSeeds == {SeedSuperseded, SeedTwoUsers}

ConcInit ==
    /\ \E seed \in ConcSeeds : store = seed.store /\ index = seed.index
    /\ now = 0
    /\ \E exclusive \in BOOLEAN :
          last = [exclusive |-> exclusive, calls |-> [p \in Procs |-> Idle]]
    /\ swept = NoUser

\* add, line 134: the sweep.
ConcAddSweep(p) ==
    /\ last.calls[p] = Idle
    /\ \E user_id \in Users, facts \in ConcBatches, sweepOk \in BOOLEAN :
          /\ MayWrite(p, user_id)
          /\ store' = LazyExpireUser(store, user_id, now, sweepOk).store
          /\ Step(p, Thread("add", "process", user_id, NoId, facts, FALSE, <<>>))
    /\ UNCHANGED <<index, now, swept>>

\* add, lines 144-201: extraction's result is turned into records, which are
\* inserted and indexed.
ConcAddWrite(p) ==
    /\ At(p, "add", "process")
    /\ \E pw \in {ProcessWriteBatch(store, last.calls[p].held, last.calls[p].user_id, now)} :
         \E embedOk, upsertOk \in Positions(Len(pw.memories)) :
            /\ store' = IF pw.raised \/ last.calls[p].held = <<>> THEN pw.store
                        ELSE InsertAll(pw.store, pw.memories)
            /\ index' = IF pw.raised \/ last.calls[p].held = <<>> THEN index
                        ELSE IndexActive(index, pw.memories, 1, embedOk, upsertOk)
            /\ Step(p, Thread("add", "done", last.calls[p].user_id, NoId, <<>>,
                              pw.raised, IF pw.raised THEN <<>> ELSE pw.memories))
    /\ UNCHANGED <<now, swept>>

\* update, lines 383-385: get_by_id.
ConcUpdateGet(p) ==
    /\ last.calls[p] = Idle
    /\ \E memory_id \in Ids \cup {Phantom} :
          IF ~HasRow(store, memory_id)
          THEN Step(p, Thread("update", "done", NoUser, memory_id, <<>>, FALSE, <<>>))
          ELSE /\ MayWrite(p, GetById(store, memory_id).user_id)
               /\ Step(p, Thread("update", "archive", GetById(store, memory_id).user_id,
                                 memory_id, <<GetById(store, memory_id)>>, FALSE, <<>>))
    /\ UNCHANGED <<store, index, now, swept>>

\* update, line 388: update_status(memory_id, "archived").
ConcUpdateArchive(p) ==
    /\ At(p, "update", "archive")
    /\ store' = UpdateStatus(store, last.calls[p].memory_id, "archived")
    /\ Step(p, [last.calls[p] EXCEPT !.pc = "insert"])
    /\ UNCHANGED <<index, now, swept>>

\* update, lines 391-408: the new record, built from the row read at the
\* start, is inserted under the same id.
ConcUpdateInsert(p) ==
    /\ At(p, "update", "insert")
    /\ \E new_content \in NewTexts :
         \E old \in {last.calls[p].held[1]} :
           \E new_mem \in {[MemoryModel(last.calls[p].memory_id, old.user_id,
                                        new_content, old.type, old.slot, "active",
                                        now, old.valid_until, old.confidence,
                                        <<last.calls[p].memory_id>>)
                              EXCEPT !.decay_half_life_days = old.decay_half_life_days]} :
              /\ store' = Insert(store, new_mem)
              /\ Step(p, [last.calls[p] EXCEPT !.pc = "index", !.held = <<new_mem>>])
    /\ UNCHANGED <<index, now, swept>>

\* update, lines 411-431: embed and upsert, a failure of either is caught.
ConcUpdateIndex(p) ==
    /\ At(p, "update", "index")
    /\ \E ok \in BOOLEAN :
          index' = IF ok THEN UpsertPoint(index, last.calls[p].memory_id,
                                          Payload(last.calls[p].held[1]))
                   ELSE index
    /\ Step(p, [last.calls[p] EXCEPT !.pc = "done", !.held = <<>>,
                                     !.results = <<last.calls[p].held[1].id>>])
    /\ UNCHANGED <<store, now, swept>>

\* list, line 217: the sweep.
ConcListSweep(p) ==
    /\ last.calls[p] = Idle
    /\ \E user_id \in Users, status \in {"active", "archived"}, sweepOk \in BOOLEAN :
          /\ store' = LazyExpireUser(store, user_id, now, sweepOk).store
          /\ Step(p, Thread("list", "fetch", user_id, NoId, <<status>>, FALSE, <<>>))
    /\ UNCHANGED <<index, now, swept>>

\* list, lines 219-222: list_by_user; results holds the ids it returned.
ConcListFetch(p) ==
    /\ At(p, "list", "fetch")
    /\ \E rows \in ListByUser(store, last.calls[p].user_id, last.calls[p].held[1]) :
          Step(p, [last.calls[p] EXCEPT !.pc = "done", !.held = <<>>,
                                        !.results = RowIds(rows)])
    /\ UNCHANGED <<store, index, now, swept>>

\* search: the sweep.
ConcSearchSweep(p) ==
    /\ last.calls[p] = Idle
    /\ \E user_id \in Users, sweepOk \in BOOLEAN :
          /\ store' = LazyExpireUser(store, user_id, now, sweepOk).store
          /\ Step(p, Thread("search", "vector", user_id, NoId, <<>>, FALSE, <<>>))
    /\ UNCHANGED <<index, now, swept>>

\* search: the query is embedded and the index searched; a failure of either
\* and an empty answer end the call with no result.
ConcSearchVector(p) ==
    /\ At(p, "search", "vector")
    /\ \E ok \in BOOLEAN :
         \E vec_results \in IF ok
                            THEN VectorSearch(index, last.calls[p].user_id, "active")
                            ELSE {<<>>} :
            Step(p, [last.calls[p] EXCEPT
                        !.pc = IF vec_results = <<>> THEN "done" ELSE "rows",
                        !.held = vec_results])
    /\ UNCHANGED <<store, index, now, swept>>

\* search: list_by_ids, the filter of the rows and the ranking; results holds
\* the ids of the records returned, best first.
ConcSearchRows(p) ==
    /\ At(p, "search", "rows")
    /\ \E combined \in {SortDesc(Combine(store, last.calls[p].held, 1, now))} :
          Step(p, [last.calls[p] EXCEPT
                      !.pc = "done", !.held = <<>>,
                      !.results = [k \in 1..Len(combined) |-> combined[k].memory.id]])
    /\ UNCHANGED <<store, index, now, swept>>

\* The caller takes the outcome of its call.
ConcReturn(p) ==
    /\ last.calls[p] # Idle
    /\ last.calls[p].pc = "done"
    /\ Step(p, Idle)
    /\ UNCHANGED <<store, index, now, swept>>

\* The clock advances, whatever is in progress.
ConcTick ==
    /\ now < MaxTime
    /\ now' = now + 1
    /\ UNCHANGED <<store, index, last, swept>>

ConcNext ==
    \/ \E p \in Procs :
          \/ ConcAddSweep(p) \/ ConcAddWrite(p)
          \/ ConcUpdateGet(p) \/ ConcUpdateArchive(p) \/ ConcUpdateInsert(p)
          \/ ConcUpdateIndex(p)
          \/ ConcListSweep(p) \/ ConcListFetch(p)
          \/ ConcSearchSweep(p) \/ ConcSearchVector(p) \/ ConcSearchRows(p)
          \/ ConcReturn(p)
    \/ ConcTick

ConcSpec == ConcInit /\ [][ConcNext]_vars

\* ----------------------------------------------------------------- claims
\* The status of the row with this id, "none" if the table has no such row.
StatusOf(st, mem_id) ==
    IF HasRow(st, mem_id) THEN GetById(st, mem_id).status ELSE "none"

\* The number of active rows of (user_id, slot).
ActiveCount(st, user_id, slot) ==
    Cardinality({k \in 1..Len(st) : /\ st[k].user_id = user_id
                                    /\ st[k].slot = slot
                                    /\ st[k].status = "active"})

\* The candidates of a batch whose confidence is 0.5 or more, in batch order.
AtOrAboveHalf(facts) == SelectSeq(facts, LAMBDA f : f.confidence >= 50)

C3_AddSupersedesActive ==
    [][(/\ last'.op = "add"
        /\ Len(AtOrAboveHalf(last'.facts)) = 1
        /\ AtOrAboveHalf(last'.facts)[1].slot # NoSlot)
       => LET before == GetActiveBySlot(
                            LazyExpireUser(store, last'.user_id, now, last'.sweepOk).store,
                            last'.user_id, AtOrAboveHalf(last'.facts)[1].slot)
          IN /\ \A k \in 1..Len(before) : StatusOf(store', before[k].id) = "archived"
             /\ Len(last'.results) = 1
             /\ StatusOf(store', last'.results[1].id) = "active"
             /\ GetById(store', last'.results[1].id).supersedes = RowIds(before)]_vars

\* An add whose candidate names the slot of an active row has ended, and
\* that row is still active and nothing was returned.
C3_AddLeftSlotAsItWas ==
    /\ last.op = "add"
    /\ Len(last.facts) = 1
    /\ last.facts[1].confidence >= 50
    /\ last.facts[1].slot # NoSlot
    /\ ActiveCount(store, last.user_id, last.facts[1].slot) = 1
    /\ last.results = <<>>

C6_ConfidenceFloor ==
    [][last'.op = "add"
       => /\ \A k \in Range(last'.handed) : last'.facts[k].confidence >= 50
          /\ \A k \in 1..Len(last'.facts) :
                (/\ last'.facts[k].confidence >= 50
                 /\ \A j \in 1..(k - 1) : last'.facts[j].confidence < 50)
                => k \in Range(last'.handed)
          /\ AtOrAboveHalf(last'.facts) = <<>>
             => /\ store' = LazyExpireUser(store, last'.user_id, now, last'.sweepOk).store
                /\ index' = index
                /\ last'.results = <<>>
                /\ ~last'.raised]_vars

\* An add of a batch with a candidate of confidence 0.3 followed by one of
\* confidence exactly 0.5 has ended: the second was handed on, the first
\* was not.
C6_DroppedAndKept ==
    /\ last.op = "add"
    /\ Len(last.facts) = 2
    /\ last.facts[1].confidence = 30
    /\ last.facts[2].confidence = 50
    /\ last.handed = <<2>>

\* C7: in add and in update, whichever embeddings and upserts fail, the call
\* returns normally, every record it produced (one per kept candidate for
\* add, the new record for update) is stored active and reported, and the
\* index gains exactly the records whose embedding and upsert succeeded.
C7_IndexFailureKeepsRecords ==
    [][/\ (last'.op = "update" /\ last'.found)
          => /\ ~last'.raised
             /\ Len(last'.results) = 1
             /\ HasRow(store', last'.results[1].id)
             /\ GetById(store', last'.results[1].id) = last'.results[1]
             /\ last'.results[1].status = "active"
             /\ index' = IF last'.indexOk
                         THEN UpsertPoint(index, last'.results[1].id,
                                          Payload(last'.results[1]))
                         ELSE index
       /\ last'.op = "add"
          => /\ ~last'.raised
             /\ Len(last'.results) = Len(AtOrAboveHalf(last'.facts))
             /\ \A k \in 1..Len(last'.results) :
                   /\ HasRow(store', last'.results[k].id)
                   /\ GetById(store', last'.results[k].id) = last'.results[k]
                   /\ last'.results[k].status = "active"
             /\ DOMAIN index' \ DOMAIN index
                  \subseteq {last'.results[k].id : k \in 1..Len(last'.results)}]_vars

\* An add with a candidate at or above the floor has ended by raising,
\* with no record stored or returned for the candidate.
C7_AddRaisedBeforeInsert ==
    /\ last.op = "add"
    /\ AtOrAboveHalf(last.facts) # <<>>
    /\ last.raised
    /\ last.results = <<>>

\* A row the sweep for user_id at time t has to transition.
Lapsed(r, user_id, t) ==
    /\ r.user_id = user_id
    /\ r.status = "active"
    /\ r.valid_until # NoTime
    /\ r.valid_until < t

C9_SweepIdempotent ==
    [][(last'.op \in {"add", "list", "search"} /\ last'.sweepOk /\ last'.again)
       => /\ last'.expired = 0
          /\ last'.op \in {"list", "search"} => store' = store]_vars

\* A second sweep in a row has run for a user whose first sweep had expired
\* a row.
C9_SweptTwice ==
    /\ last.op \in {"list", "search"}
    /\ last.sweepOk
    /\ last.again
    /\ \E k \in 1..Len(store) :
          store[k].user_id = last.user_id /\ store[k].status = "expired"

AffectedUser(call, st) ==
    IF call.op \in {"add", "list", "search"} THEN call.user_id
    ELSE IF HasRow(st, call.memory_id) THEN GetById(st, call.memory_id).user_id
    ELSE NoUser

\* C11: every write (add, update, delete) and every read (list, search)
\* runs the expiration sweep for the affected user first: when the call has
\* ended and its sweep did not fail, no row of that user, other than the row
\* the call was about, is still active with a valid_until that has passed.
C11_EveryCallSweepsFirst ==
    [][(/\ last'.op \in {"add", "list", "search", "update", "delete"}
        /\ last'.op \in {"add", "list", "search"} => last'.sweepOk
        /\ AffectedUser(last', store) # NoUser)
       => \A k \in 1..Len(store') :
             store'[k].id # last'.memory_id
             => ~Lapsed(store'[k], AffectedUser(last', store), now)]_vars

\* A delete has returned while another row of the same user is still active
\* although its valid_until has passed.
C11_DeleteWithoutSweep ==
    /\ last.op = "delete"
    /\ last.found
    /\ \E j, k \in 1..Len(store) :
          /\ store[j].id = last.memory_id
          /\ store[k].id # last.memory_id
          /\ Lapsed(store[k], store[j].user_id, now)

\* st holds a row that is r with this status and this supersedes list.
HoldsAs(st, r, status, supersedes) ==
    \E k \in 1..Len(st) :
        st[k] = [r EXCEPT !.status = status, !.supersedes = supersedes]

Immutable(r) ==
    [id |-> r.id, user_id |-> r.user_id, memory |-> r.memory, type |-> r.type,
     slot |-> r.slot, created_at |-> r.created_at,
     valid_until |-> r.valid_until, supersedes |-> r.supersedes]

C14_NotFoundIsNoOp ==
    [][(last'.op \in {"update", "delete"} /\ ~HasRow(store, last'.memory_id))
       => /\ ~last'.found
          /\ ~last'.raised
          /\ last'.results = <<>>
          /\ store' = store
          /\ index' = index]_vars

\* A delete of an id without a row has returned not-found, and the point the
\* index holds under that id is still there.
C14_DeleteOfUnknownId ==
    /\ last.op = "delete"
    /\ ~last.found
    /\ ~HasRow(store, last.memory_id)
    /\ last.memory_id \in DOMAIN index
    /\ last.indexOk

\* C15: delete(id) on an existing record sets that row's status to deleted
\* whether the vector delete succeeds or fails, does not raise, and changes
\* no other row; the point leaves the index exactly when the vector delete
\* succeeded.
C15_DeleteMarksDeleted ==
    [][(last'.op = "delete" /\ HasRow(store, last'.memory_id))
       => /\ last'.found
          /\ ~last'.raised
          /\ Len(store') = Len(store)
          /\ \A k \in 1..Len(store) :
                store'[k] = IF store[k].id = last'.memory_id
                            THEN [store[k] EXCEPT !.status = "deleted"]
                            ELSE store[k]
          /\ index' = IF last'.indexOk
                      THEN [j \in DOMAIN index \ {last'.memory_id} |-> index[j]]
                      ELSE index]_vars

\* A delete whose vector delete failed has returned: the row is deleted, its
\* point is still in the index, and another row is still active.
C15_DeletedDespiteIndexFailure ==
    /\ last.op = "delete"
    /\ last.found
    /\ ~last.indexOk
    /\ ~last.raised
    /\ StatusOf(store, last.memory_id) = "deleted"
    /\ last.memory_id \in DOMAIN index
    /\ \E k \in 1..Len(store) :
          store[k].id # last.memory_id /\ store[k].status = "active"

\* C16: when embedding the query fails or the vector search fails, search
\* returns an empty result list without raising, and the store differs from
\* the one before the call only by what the initial sweep did; the index is
\* untouched.
C16_SearchFailureIsEmpty ==
    [][(last'.op = "search" /\ ~last'.indexOk)
       => /\ last'.results = <<>>
          /\ ~last'.raised
          /\ store' = LazyExpireUser(store, last'.user_id, now, last'.sweepOk).store
          /\ index' = index]_vars

\* A search whose embedding or vector search failed has returned nothing
\* although the user has an active row whose point is in the index.
C16_FailedSearchReturnedEmpty ==
    /\ last.op = "search"
    /\ ~last.indexOk
    /\ last.results = <<>>
    /\ \E k \in 1..Len(store) :
          /\ store[k].user_id = last.user_id
          /\ store[k].status = "active"
          /\ store[k].id \in DOMAIN index

\* The position of the hit with this id in what the vector search returned.
HitPos(hits, mem_id) == CHOOSE i \in 1..Len(hits) : hits[i].id = mem_id

C17_HigherScoreFirst ==
    /\ last.op = "search"
    /\ Len(last.results) = 2
    /\ last.results[1].score > last.results[2].score
    /\ last.results[1].memory.id = last.hits[2].id

\* The sum of the adjustments that match record r at time t: -0.5 when
\* valid_until is set and passed; +0.1 profile_fact, +0.05 preference; -0.1
\* temp_state created more than 7 days ago, -0.05 episodic_event created
\* more than 30 days ago; -0.2 confidence below 0.5, +0.05 above 0.9.
MatchingAdjustments(r, t) ==
    (IF r.valid_until # NoTime /\ r.valid_until < t THEN 0 - 50 ELSE 0)
    + (IF r.type = "profile_fact" THEN 10 ELSE 0)
    + (IF r.type = "preference" THEN 5 ELSE 0)
    + (IF r.type = "temp_state" /\ t - r.created_at > 7 * TicksPerDay
       THEN 0 - 10 ELSE 0)
    + (IF r.type = "episodic_event" /\ t - r.created_at > 30 * TicksPerDay
       THEN 0 - 5 ELSE 0)
    + (IF r.confidence < 50 THEN 0 - 20 ELSE 0)
    + (IF r.confidence > 90 THEN 5 ELSE 0)

\* C18: for every base score, record and current time the rank score is
\* the base score plus the sum of every matching adjustment.
C18_RankIsSumOfAdjustments ==
    last.op = "rank"
    => last.score = last.base_score + MatchingAdjustments(store[1], now)

\* A temp_state record created more than 7 days, but less than 8 days, ago
\* has been scored at its base score.
C18_StaleTempStateUnpenalised ==
    /\ last.op = "rank"
    /\ store[1].type = "temp_state"
    /\ now - store[1].created_at > 7 * TicksPerDay
    /\ store[1].valid_until = NoTime
    /\ store[1].confidence = 50
    /\ last.score = last.base_score

\* The table of the policy engine as the specification states it:
\* <<valid_until, decay_half_life_days>> for a record of the given type made
\* at time t from a candidate of duration d.
PolicyTable(type, d, t) ==
    IF d # NoTime /\ d > 0
    THEN <<t + d * TicksPerDay, IF d \div 2 > 1 THEN d \div 2 ELSE 1>>
    ELSE CASE type = "temp_state" -> <<t + 3 * TicksPerDay, 1>>
           [] type = "preference" -> <<NoTime, 60>>
           [] type = "profile_fact" -> <<NoTime, NoHalfLife>>
           [] type = "episodic_event" -> <<NoTime, 7>>
           [] OTHER -> <<NoTime, 30>>

\* C19: the write path turns every candidate into a record, and that record
\* has valid_until = now + d days and half-life max(1, floor(d/2)) when the
\* candidate carries a positive duration d, and the defaults of its type
\* otherwise.
C19_WritePathAppliesPolicies ==
    last.op = "from_fact_candidate"
       => /\ ~last.raised
          /\ <<last.mem.valid_until, last.mem.decay_half_life_days>>
                = PolicyTable(last.mem.type, last.fact.duration_in_days, now)

\* The write path was given a candidate with a positive duration and raised,
\* leaving the record it had built without expiry and without half-life.
C19_RaisedBeforePolicies ==
    /\ last.op = "from_fact_candidate"
    /\ last.fact.duration_in_days > 0
    /\ last.raised
    /\ last.mem.valid_until = NoTime
    /\ last.mem.decay_half_life_days = NoHalfLife
    /\ store = <<>>

\* The routing table of the classifier as the specification states it:
\* <<type, slot>> of the record made from a candidate.
RoutingTable(fact) ==
    CASE fact.kind = "home_location" -> <<"profile_fact", "home_location">>
      [] fact.kind = "current_location" -> <<"temp_state", "current_location">>
      [] fact.kind = "trip" -> <<"episodic_event", "trip">>
      [] OTHER ->
           <<CASE fact.category = "profile" -> "profile_fact"
               [] fact.category = "preference" -> "preference"
               [] fact.category = "event" -> "episodic_event"
               [] fact.category = "temp_state" -> "temp_state"
               [] OTHER -> "other",
             fact.slot>>

\* C20: the write path turns every candidate into a record whose type and
\* slot are those of its kind when the kind is home_location,
\* current_location or trip, whatever its category and slot, and otherwise
\* the type of its category (other for an unknown one) with the candidate's
\* own slot; it never raises on an unknown category.
C20_WritePathRoutesByKind ==
    last.op = "from_fact_candidate"
       => /\ ~last.raised
          /\ <<last.mem.type, last.mem.slot>> = RoutingTable(last.fact)

\* The write path was given a candidate of kind home_location with category
\* other and its own slot, and built an other record in the candidate's slot.
C20_KindIgnored ==
    /\ last.op = "from_fact_candidate"
    /\ last.fact.kind = "home_location"
    /\ last.fact.category = "other"
    /\ last.fact.slot \in Slots
    /\ last.mem.type = "other"
    /\ last.mem.slot = last.fact.slot

RowsOfOthers(st, user_id) == SelectSeq(st, LAMBDA r : r.user_id # user_id)

\* The call of caller p that a step belongs to: the one in progress after
\* the step, or the one that returned with it.
CallOf(before, after, p) ==
    IF after.calls[p] # Idle THEN after.calls[p] ELSE before.calls[p]

\* C22: while calls interleave step by step, no step of an add, a list or a
\* search for user U changes, adds or removes a row owned by another user
\* (so calls for different users do not disturb each other's records).
C22_OtherUsersUntouched ==
    [][\A p \in Procs :
          (/\ last'.calls[p] # last.calls[p]
           /\ CallOf(last, last', p).op \in {"add", "list", "search"})
             => RowsOfOthers(store', CallOf(last, last', p).user_id)
                  = RowsOfOthers(store, CallOf(last, last', p).user_id)]_vars

\* While a call for u2 is in progress, a list for u1 has swept: u1's lapsed
\* record a is expired and u2's lapsed record c is still active.
C22_SweptBesideOtherUsersCall ==
    /\ \E p, q \in Procs :
          /\ At(p, "list", "fetch")
          /\ last.calls[p].user_id = "u1"
          /\ last.calls[q] # Idle
          /\ last.calls[q].user_id = "u2"
          /\ last.calls[q].pc # "done"
    /\ StatusOf(store, "a") = "expired"
    /\ StatusOf(store, "c") = "active"
    /\ GetById(store, "c").valid_until < now

\* The rows of st owned by user_id whose status is the given one.
RowsWithStatus(st, user_id, status) ==
    {st[k] : k \in {j \in 1..Len(st) : st[j].user_id = user_id /\ st[j].status = status}}

C24_EmptyExtractionStopsAdd ==
    [][(last'.op = "add" /\ last'.facts = <<>>)
         => /\ ~last'.raised
            /\ last'.results = <<>>
            /\ last'.handed = <<>>
            /\ index' = index
            /\ store' = IF last'.sweepOk
                        THEN ExpireUserMemories(store, last'.user_id, now).store
                        ELSE store]_vars

\* An add with an empty extraction has returned an empty result after its
\* sweep expired a record.
C24_EmptyAddAfterSweep ==
    /\ last.op = "add"
    /\ last.facts = <<>>
    /\ ~last.raised
    /\ last.results = <<>>
    /\ last.expired > 0

\* C25: an add whose kept candidates all have a null slot returns one new
\* active record per kept candidate, each with an empty supersedes list,
\* and archives nothing: every record that was active and not lapsed is
\* still active, so slot-less active records accumulate.
C25_SlotlessAddKeepsAll ==
    [][(/\ last'.op = "add"
        /\ AtOrAboveHalf(last'.facts) # <<>>
        /\ \A k \in 1..Len(last'.facts) : last'.facts[k].slot = NoSlot)
         => /\ ~last'.raised
            /\ Len(last'.results) = Len(AtOrAboveHalf(last'.facts))
            /\ \A k \in 1..Len(last'.results) :
                  /\ last'.results[k].supersedes = <<>>
                  /\ last'.results[k].status = "active"
                  /\ HasRow(store', last'.results[k].id)
            /\ \A k \in 1..Len(store) :
                  StatusOf(store', store[k].id) \in {store[k].status, "expired"}]_vars

\* An add of one slot-less candidate at the floor has raised, and the
\* store holds no record beyond those it held before.
C25_SlotlessAddRaised ==
    /\ last.op = "add"
    /\ Len(last.facts) = 1
    /\ last.facts[1].slot = NoSlot
    /\ last.facts[1].confidence = ConfidenceFloor
    /\ last.raised
    /\ \A k \in 1..Len(store) : store[k].id \in Ids

\* C26: reindex_user(U, status) never raises; it reports total = the number
\* of records of U with that status, indexed = the number whose embedding
\* and upsert both succeeded, failed = the others, so total = indexed +
\* failed; every record whose embedding and upsert succeeded is in the index
\* with its payload whichever records before it failed, every other point
\* is as it was, and the metadata store is unchanged.
C26_ReindexAttemptsAll ==
    [][last'.op = "reindex_user"
         => LET ids == last'.hits
                good == {k \in 1..Len(ids) :
                            k \in last'.embedOk /\ k \in last'.upsertOk}
            IN /\ ~last'.raised
               /\ store' = store
               /\ Range(ids) = {r.id : r \in RowsWithStatus(store, last'.user_id,
                                        IF last'.given = NoFilter THEN "active"
                                        ELSE last'.given)}
               /\ last'.results.total = Cardinality(Range(ids))
               /\ last'.results.indexed = Cardinality(good)
               /\ last'.results.total = last'.results.indexed + last'.results.failed
               /\ \A k \in good :
                     /\ ids[k] \in DOMAIN index'
                     /\ index'[ids[k]] = Payload(GetById(store, ids[k]))
               /\ \A j \in (DOMAIN index \cup DOMAIN index') \ {ids[k] : k \in good} :
                     /\ j \in DOMAIN index
                     /\ j \in DOMAIN index'
                     /\ index'[j] = index[j]]_vars

\* A reindex of two records has returned: the first failed, the second is
\* in the index, which did not hold it before.
C26_SecondIndexedAfterFirstFailed ==
    /\ last.op = "reindex_user"
    /\ last.results = [total |-> 2, indexed |-> 1, failed |-> 1]
    /\ ~(1 \in last.embedOk /\ 1 \in last.upsertOk)
    /\ last.hits[2] \in DOMAIN index
    /\ last.hits[1] \notin DOMAIN index

\* C27: every call of add, list, search, update, delete and reindex_user
\* ends with a return value, never with a raised fault, whichever of the
\* sweep, the embedder and the index's search, upsert and delete fail, also
\* an add whose extraction yields candidates at or above the floor.
C27_NoCallRaises ==
    last.op \in {"add", "list", "search", "update", "delete", "reindex_user"}
       => ~last.raised

\* An add whose sweep succeeded and whose first candidate is at the floor
\* has ended with a raised fault on that candidate.
C27_AddRaisedOnKeptCandidate ==
    /\ last.op = "add"
    /\ last.sweepOk
    /\ last.facts # <<>>
    /\ last.facts[1].confidence >= ConfidenceFloor
    /\ last.handed = <<1>>
    /\ last.raised

\* Caller p is inside an add for user_id whose one candidate is kept and
\* names the slot, after the sweep and before the engine has run.
AddInFlight(calls, p, user_id, slot) ==
    /\ calls[p] # Idle
    /\ calls[p].op = "add"
    /\ calls[p].pc = "process"
    /\ calls[p].user_id = user_id
    /\ AtOrAboveHalf(calls[p].held) # <<>>
    /\ calls[p].held[1].slot = slot

\* The records of the slot among those a read returned.
SeenInSlot(st, ids, slot) ==
    {k \in 1..Len(ids) : HasRow(st, ids[k]) /\ GetById(st, ids[k]).slot = slot}

IdsOf(st) == {st[k].id : k \in 1..Len(st)}

C30_OnlyDeleteRemovesPoints ==
    [][/\ last'.op # "delete" => DOMAIN index \subseteq DOMAIN index'
       /\ last'.op = "delete" => DOMAIN index \ DOMAIN index' \subseteq {last'.memory_id}
       /\ last'.op \in {"list", "search"} => index' = index
       /\ last'.op = "add" => \A j \in DOMAIN index :
                                  j \in DOMAIN index' /\ index'[j] = index[j]]_vars

\* A list has expired record a by its sweep, and a's point is still in the
\* index with payload status active.
C30_ExpiredPointStillActive ==
    /\ last.op = "list"
    /\ last.expired > 0
    /\ StatusOf(store, "a") = "expired"
    /\ "a" \in DOMAIN index
    /\ index["a"].status = "active"

====
